---- MODULE Spec2Model ----
(***************************************************************************)
(* Model of src/settings.py: OpenAISettings, the Binary Ninja settings      *)
(* registrar of the OpenAI plugin.  The constructor registers one group     *)
(* and three settings with the host settings store and raises on the first  *)
(* registration the host rejects.                                           *)
(*                                                                          *)
(* The host store (binaryninja.settings.Settings) is the environment: each  *)
(* registration call is answered true or false by the host; an accepted     *)
(* call records the group / the setting's serialized properties under its   *)
(* key, a rejected call leaves the store alone.                             *)
(***************************************************************************)
EXTENDS Integers, Sequences, FiniteSets, TLC

VARIABLES
    groups,        \* host store: group id -> display label
    settings,      \* host store: setting key -> serialized properties (JSON)
    pc,            \* position of the constructor
    calls,         \* host calls made by the construction in progress, in order
    raised,        \* exception raised by the construction in progress, or None
    loads,         \* number of constructions (plugin loads) started
    groups0,       \* groups at the start of the construction in progress
    settings0,     \* settings at the start of the construction in progress
    rejected,      \* the step the host rejected in this construction, or "none"
    succeeded,     \* number of constructions that returned normally
    firstGroups,   \* groups right after the first successful construction
    firstSettings  \* settings right after the first successful construction

vars == <<groups, settings, pc, calls, raised, loads, groups0, settings0,
          rejected, succeeded, firstGroups, firstSettings>>

\* Number of plugin loads (constructions) explored.
MaxLoads == 3

-----------------------------------------------------------------------------
(* Python values that occur in the properties dictionaries.                *)

Str(s) == [type |-> "str", s |-> s, n |-> 0, l |-> <<>>]
Num(n) == [type |-> "int", s |-> "", n |-> n, l |-> <<>>]
List(l) == [type |-> "list", s |-> "", n |-> 0, l |-> l]

None == [kind |-> "None", msg |-> ""]
Exception(kind, msg) == [kind |-> kind, msg |-> msg]

-----------------------------------------------------------------------------
(* json.dumps: the properties dictionary (insertion ordered, a sequence of *)
(* <<key, value>> pairs) is serialized to JSON text, kept here as the      *)
(* sequence of its lexical tokens.                                         *)

StrTok(s) == [t |-> "str", s |-> s, n |-> 0]
NumTok(n) == [t |-> "num", s |-> "", n |-> n]
Punct(c) == [t |-> "punct", s |-> c, n |-> 0]

RECURSIVE DumpStrList(_)
DumpStrList(l) ==
    IF l = <<>> THEN <<>>
    ELSE <<StrTok(Head(l))>>
         \o (IF Len(l) > 1 THEN <<Punct(",")>> ELSE <<>>)
         \o DumpStrList(Tail(l))

DumpValue(v) ==
    CASE v.type = "str" -> <<StrTok(v.s)>>
      [] v.type = "int" -> <<NumTok(v.n)>>
      [] v.type = "list" -> <<Punct("[")>> \o DumpStrList(v.l) \o <<Punct("]")>>

RECURSIVE DumpItems(_)
DumpItems(d) ==
    IF d = <<>> THEN <<>>
    ELSE <<StrTok(Head(d)[1]), Punct(":")>> \o DumpValue(Head(d)[2])
         \o (IF Len(d) > 1 THEN <<Punct(",")>> ELSE <<>>)
         \o DumpItems(Tail(d))

json_dumps(d) == <<Punct("{")>> \o DumpItems(d) \o <<Punct("}")>>

-----------------------------------------------------------------------------
(* Reading serialized properties back (the host's view of a registered     *)
(* setting): the inverse of json_dumps on token sequences.                 *)

RECURSIVE ParseStrList(_, _, _)
ParseStrList(toks, i, acc) ==
    IF i > Len(toks) THEN [v |-> List(acc), next |-> i]
    ELSE IF toks[i] = Punct("]") THEN [v |-> List(acc), next |-> i + 1]
    ELSE IF toks[i] = Punct(",") THEN ParseStrList(toks, i + 1, acc)
    ELSE ParseStrList(toks, i + 1, Append(acc, toks[i].s))

ParseValue(toks, i) ==
    IF toks[i].t = "str" THEN [v |-> Str(toks[i].s), next |-> i + 1]
    ELSE IF toks[i].t = "num" THEN [v |-> Num(toks[i].n), next |-> i + 1]
    ELSE ParseStrList(toks, i + 1, <<>>)

RECURSIVE ParseItems(_, _, _)
ParseItems(toks, i, acc) ==
    IF i + 2 > Len(toks) THEN acc
    ELSE IF toks[i].t = "punct" THEN ParseItems(toks, i + 1, acc)
    ELSE LET val == ParseValue(toks, i + 2)
         IN  ParseItems(toks, val.next, Append(acc, <<toks[i].s, val.v>>))

json_loads(toks) == ParseItems(toks, 2, <<>>)

Keys(d) == {d[i][1] : i \in DOMAIN d}
Get(d, k) == d[CHOOSE i \in DOMAIN d : d[i][1] = k][2]

-----------------------------------------------------------------------------
(* The registered identifiers and properties (settings.py, literals).      *)

GroupId == "openai"
GroupLabel == "OpenAI"

ApiKeySettingKey == "openai.api_key"

\* Faulty variant: the key is not group-qualified with a dot.
ModelSettingKey_underscore == "openai_model"
ModelSettingKey == "openai.model"

MaxTokensSettingKey == "openai.max_tokens"

\* Faulty variant: the properties depend on how often the plugin was loaded.
ApiKeyProperties_perLoad ==
    << <<"title", Str(IF loads > 1 THEN "OpenAI API Key (reloaded)"
                                   ELSE "OpenAI API Key")>>,
       <<"type", Str("string")>>,
       <<"description", Str("The user's OpenAI API key used to make requests "
                            \o "the server.")>> >>

\* register_api_key_settings: properties (adjacent literals are concatenated)
ApiKeyProperties ==
    << <<"title", Str("OpenAI API Key")>>,
       <<"type", Str("string")>>,
       <<"description", Str("The user's OpenAI API key used to make requests "
                            \o "the server.")>> >>

\* register_model_settings: the 'enum' list
ModelEnum ==
    << "gpt-4",
       "gpt-4-32k",
       "gpt-3.5-turbo",
       "text-davinci-003",
       "text-davinci-002",
       "text-curie-001",
       "text-babbage-001",
       "text-babbage-002",
       "code-davinci-002",
       "code-cushman-001" >>

\* register_model_settings: the 'enumDescriptions' list.  The fifth literal
\* has no trailing comma in the source, so Python concatenates it with the
\* sixth into one element.
ModelEnumDescriptions ==
    << "More capable than any GPT-3.5 model, able to do more complex tasks, and optimized for chat. Will be updated with our latest model iteration.",
       "Same capabilities as the base gpt-4 mode but with 4x the context length. Will be updated with our latest model iteration.",
       "Most capable GPT-3.5 model and optimized for chat at 1/10th the cost of text-davinci-003. Will be updated with our latest model iteration.",
       "Can do any language task with better quality, longer output, and consistent instruction-following than the curie, babbage, or ada models.",
       "Similar capabilities to text-davinci-003 but trained with supervised fine-tuning instead of reinforcement learning"
       \o "Very capable, but faster and lower cost than Davinci.",
       "Capable of straightforward tasks, very fast, and lower cost.",
       "Capable of very simple tasks, usually the fastest model in the GPT-3 series, and lowest cost.",
       "Most capable Codex model. Particularly good at translating natural language to code. In addition to completing code, also supports inserting completions within code.",
       "Almost as capable as Davinci Codex, but slightly faster. This speed advantage may make it preferable for real-time applications." >>

\* Faulty variant: a default that is not one of the enumerated models.
ModelProperties_staleDefault ==
    << <<"title", Str("OpenAI Model")>>,
       <<"type", Str("string")>>,
       <<"description", Str("The OpenAI model used to generate the response.")>>,
       <<"enum", List(ModelEnum)>>,
       <<"enumDescriptions", List(ModelEnumDescriptions)>>,
       <<"default", Str("gpt-3.5")>> >>

ModelProperties ==
    << <<"title", Str("OpenAI Model")>>,
       <<"type", Str("string")>>,
       <<"description", Str("The OpenAI model used to generate the response.")>>,
       <<"enum", List(ModelEnum)>>,
       <<"enumDescriptions", List(ModelEnumDescriptions)>>,
       <<"default", Str("gpt-3.5-turbo")>> >>

MaxTokensDescription ==
    "The maximum number of tokens used for completion. Tokens do not necessarily align with word or instruction count. Typically, each token is four characters. If your function is very large, you may need to decrease this value, as the number of tokens in your prompt counts against the total number of tokens supported by the model. Not all models support the same number of maximum tokens; most support 2,048 tokens. For larger functions, check out text-davinci-003 and code-davinci-002 which support 4,000 and 8,000 respectively. For the maximum amount of tokens, check out gpt-4-32k which supports up to 32,768 tokens. This may be costly, however."

\* Faulty variant: an upper bound below the default.
MaxTokensProperties_lowMax ==
    << <<"title", Str("OpenAI Max Completion Tokens")>>,
       <<"type", Str("number")>>,
       <<"description", Str(MaxTokensDescription)>>,
       <<"default", Num(1024)>>,
       <<"minValue", Num(1)>>,
       <<"maxValue", Num(768)>>,
       <<"message", Str("Min: 1, Max: 32,768")>> >>

MaxTokensProperties ==
    << <<"title", Str("OpenAI Max Completion Tokens")>>,
       <<"type", Str("number")>>,
       <<"description", Str(MaxTokensDescription)>>,
       <<"default", Num(1024)>>,
       <<"minValue", Num(1)>>,
       <<"maxValue", Num(32768)>>,
       <<"message", Str("Min: 1, Max: 32,768")>> >>

-----------------------------------------------------------------------------
(* The host settings store (binaryninja.settings.Settings), as the calls   *)
(* of settings.py use it.  ok is the host's answer.                        *)

register_group(g, id, label, ok) == IF ok THEN (id :> label) @@ g ELSE g

register_setting(s, key, properties_json, ok) ==
    IF ok THEN (key :> properties_json) @@ s ELSE s

NoEntries == [k \in {} |-> ""]

\* Settings the host itself ships with, present before the plugin loads.
HostGroups == ("analysis" :> "Analysis")
HostSettings ==
    ("analysis.mode" :>
        json_dumps(<< <<"title", Str("Analysis Mode")>>,
                      <<"type", Str("string")>> >>))

-----------------------------------------------------------------------------
(* OpenAISettings.__init__: the registration steps, in program order.      *)

\* Faulty variant: the model is registered before the API key.
StepOrder_modelFirst == <<"group", "model", "api_key", "max_tokens">>
StepOrder == <<"group", "api_key", "model", "max_tokens">>

Steps == {StepOrder[i] : i \in DOMAIN StepOrder}
IndexOf(step) == CHOOSE i \in DOMAIN StepOrder : StepOrder[i] = step

\* Where control goes after the registration of step returned true.
After(step) ==
    IF IndexOf(step) < Len(StepOrder) THEN StepOrder[IndexOf(step) + 1]
    ELSE "done"

\* Faulty variant: an exception of neither registration error kind.
StepError_builtin(step) ==
    Exception("RuntimeError", "Failed to register OpenAI settings.")

\* The exception each guard of __init__ raises (adjacent literals joined).
StepError(step) ==
    CASE step = "group" ->
           Exception("RegisterSettingsGroupException",
                     "Failed to register OpenAI " \o "settings group.")
      [] step = "api_key" ->
           Exception("RegisterSettingsKeyException",
                     "Failed to register OpenAI API " \o "key settings.")
      [] step = "model" ->
           Exception("RegisterSettingsKeyException",
                     "Failed to register OpenAI " \o "model settings.")
      [] step = "max_tokens" ->
           Exception("RegisterSettingsKeyException",
                     "Failed to register OpenAI " \o "max tokens settings.")

\* Where control goes, and what is raised, after the registration of step
\* returned false.
\* Faulty variants: the rejection is ignored; the rejected step is retried.
OnReject_fallThrough(step) == [pc |-> After(step), raised |-> None]
OnReject_retry(step) == [pc |-> step, raised |-> None]
OnReject(step) == [pc |-> "raised", raised |-> StepError(step)]

RegisterGroupCall == [fn |-> "register_group", key |-> GroupId]
RegisterSettingCall(key) == [fn |-> "register_setting", key |-> key]

\* The part of every step that follows the host's answer ok: the guard
\* `if not ...: raise ...` and the bookkeeping of the run.
Outcome(step, ok) ==
    LET to == IF ok THEN [pc |-> After(step), raised |-> None]
              ELSE OnReject(step)
    IN  /\ pc' = to.pc
        /\ raised' = to.raised
        /\ rejected' = IF ~ok /\ rejected = "none" THEN step ELSE rejected
        /\ succeeded' = IF to.pc = "done" THEN succeeded + 1 ELSE succeeded
        /\ firstGroups' = IF to.pc = "done" /\ succeeded = 0
                          THEN groups' ELSE firstGroups
        /\ firstSettings' = IF to.pc = "done" /\ succeeded = 0
                            THEN settings' ELSE firstSettings
        /\ UNCHANGED <<loads, groups0, settings0>>

\* A plugin load: OpenAISettings() is constructed; super().__init__ binds
\* the 'default' settings instance, then the first step runs next.
Construct ==
    /\ pc \in {"idle", "done", "raised"}
    /\ loads < MaxLoads
    /\ loads' = loads + 1
    /\ pc' = Head(StepOrder)
    /\ calls' = <<>>
    /\ raised' = None
    /\ rejected' = "none"
    /\ groups0' = groups
    /\ settings0' = settings
    /\ UNCHANGED <<groups, settings, succeeded, firstGroups, firstSettings>>

\* if not self.register_group('openai', 'OpenAI'): raise ...
RegisterGroup ==
    /\ pc = "group"
    /\ \E ok \in BOOLEAN :
         /\ calls' = Append(calls, RegisterGroupCall)
         /\ groups' = register_group(groups, GroupId, GroupLabel, ok)
         /\ settings' = settings
         /\ Outcome("group", ok)

\* if not self.register_api_key_settings(): raise ...
register_api_key_settings ==
    /\ pc = "api_key"
    /\ \E ok \in BOOLEAN :
         /\ calls' = Append(calls, RegisterSettingCall(ApiKeySettingKey))
         /\ settings' = register_setting(settings, ApiKeySettingKey,
                                         json_dumps(ApiKeyProperties), ok)
         /\ groups' = groups
         /\ Outcome("api_key", ok)

\* if not self.register_model_settings(): raise ...
register_model_settings ==
    /\ pc = "model"
    /\ \E ok \in BOOLEAN :
         /\ calls' = Append(calls, RegisterSettingCall(ModelSettingKey))
         /\ settings' = register_setting(settings, ModelSettingKey,
                                         json_dumps(ModelProperties), ok)
         /\ groups' = groups
         /\ Outcome("model", ok)

\* if not self.register_max_tokens(): raise ...
register_max_tokens ==
    /\ pc = "max_tokens"
    /\ \E ok \in BOOLEAN :
         /\ calls' = Append(calls, RegisterSettingCall(MaxTokensSettingKey))
         /\ settings' = register_setting(settings, MaxTokensSettingKey,
                                         json_dumps(MaxTokensProperties), ok)
         /\ groups' = groups
         /\ Outcome("max_tokens", ok)

Init ==
    /\ \E hosted \in BOOLEAN :
         /\ groups = IF hosted THEN HostGroups ELSE NoEntries
         /\ settings = IF hosted THEN HostSettings ELSE NoEntries
    /\ pc = "idle"
    /\ calls = <<>>
    /\ raised = None
    /\ loads = 0
    /\ groups0 = groups
    /\ settings0 = settings
    /\ rejected = "none"
    /\ succeeded = 0
    /\ firstGroups = NoEntries
    /\ firstSettings = NoEntries

Next ==
    \/ Construct
    \/ RegisterGroup
    \/ register_api_key_settings
    \/ register_model_settings
    \/ register_max_tokens

Spec == Init /\ [][Next]_vars

TypeOK ==
    /\ pc \in Steps \cup {"idle", "done", "raised"}
    /\ loads \in 0..MaxLoads
    /\ succeeded \in 0..loads
    /\ rejected \in Steps \cup {"none"}

-----------------------------------------------------------------------------
(* Properties.                                                             *)

Finished == pc \in {"done", "raised"}

\* The four host calls of a construction the host never rejects.
ExpectedCalls ==
    << [fn |-> "register_group", key |-> "openai"],
       [fn |-> "register_setting", key |-> "openai.api_key"],
       [fn |-> "register_setting", key |-> "openai.model"],
       [fn |-> "register_setting", key |-> "openai.max_tokens"] >>

StepNumber(step) ==
    CASE step = "group" -> 1
      [] step = "api_key" -> 2
      [] step = "model" -> 3
      [] step = "max_tokens" -> 4

\* The human name of each key step, as the error message gives it.
HumanName(step) ==
    CASE step = "api_key" -> "API key"
      [] step = "model" -> "model"
      [] step = "max_tokens" -> "max tokens"

\* Group and setting keys of the steps that precede step k.
GroupsBefore(k) == IF StepNumber(k) > 1 THEN {"openai"} ELSE {}
KeysBefore(k) ==
    {ExpectedCalls[i].key : i \in 2..(StepNumber(k) - 1)}
KeysFrom(k) ==
    {ExpectedCalls[i].key : i \in (2..4) \ (1..(StepNumber(k) - 1))}

\* The registered properties of a setting, as read back from the store.
Registered(key) == json_loads(settings[key])
Range(seq) == {seq[i] : i \in DOMAIN seq}

\* C1: while the host has rejected nothing, the calls made so far are a prefix
\* of (group 'openai', 'openai.api_key', 'openai.model', 'openai.max_tokens');
\* a construction that ends with nothing rejected returned without raising
\* and made exactly these four calls, each once, in this order.
C1_SuccessCallsEachOnceInOrder ==
    rejected = "none" =>
        /\ Len(calls) <= Len(ExpectedCalls)
        /\ calls = SubSeq(ExpectedCalls, 1, Len(calls))
        /\ pc # "raised"
        /\ raised = None
        /\ Finished => calls = ExpectedCalls

C1_Witness ==
    pc = "done" /\ rejected = "none" /\ Len(calls) = 4 /\ raised = None

\* C2: if step k is the first registration the host rejects, construction
\* has raised the error of step k (the group error for the group step, else
\* the key error whose message names that key) and the calls made are
\* exactly those of steps 1..k: nothing after step k is invoked.
C2_FirstRejectionRaisesItsError ==
    \A k \in {"group", "api_key", "model", "max_tokens"} :
        rejected = k =>
            /\ pc = "raised"
            /\ IF k = "group"
               THEN raised.kind = "RegisterSettingsGroupException"
               ELSE /\ raised.kind = "RegisterSettingsKeyException"
                    /\ raised.msg = "Failed to register OpenAI "
                                    \o HumanName(k) \o " settings."
            /\ calls = SubSeq(ExpectedCalls, 1, StepNumber(k))

C2_Witness ==
    /\ rejected = "api_key"
    /\ pc = "raised"
    /\ raised.kind = "RegisterSettingsKeyException"
    /\ Len(calls) = 2

\* C3: the constructor registers no group but 'openai' and no setting but
\* 'openai.api_key', 'openai.model', 'openai.max_tokens'; every key it passes
\* is the group id, a dot, and the setting's name; after a successful
\* construction the store holds the group and exactly these three settings
\* on top of what it held before.
C3_RegisteredKeysAreGroupQualified ==
    /\ (DOMAIN groups) \ (DOMAIN groups0) \subseteq {"openai"}
    /\ (DOMAIN settings) \ (DOMAIN settings0)
           \subseteq {"openai" \o "." \o name :
                          name \in {"api_key", "model", "max_tokens"}}
    /\ \A i \in DOMAIN calls :
           calls[i].fn = "register_setting" =>
               \E name \in {"api_key", "model", "max_tokens"} :
                   calls[i].key = GroupId \o "." \o name
    /\ pc = "done" =>
           /\ "openai" \in DOMAIN groups
           /\ DOMAIN groups = (DOMAIN groups0) \cup {"openai"}
           /\ DOMAIN settings =
                  (DOMAIN settings0)
                  \cup {"openai.api_key", "openai.model", "openai.max_tokens"}

C3_Witness ==
    /\ pc = "done"
    /\ settings0 = NoEntries
    /\ Cardinality(DOMAIN settings) = 3
    /\ "openai.model" \in DOMAIN settings

\* C4: in the properties registered for 'openai.model', 'enum' and
\* 'enumDescriptions' both have length 10.
C4_EnumAndDescriptionsSameLength ==
    "openai.model" \in DOMAIN settings =>
        /\ Len(Get(Registered("openai.model"), "enum").l) = 10
        /\ Len(Get(Registered("openai.model"), "enumDescriptions").l) = 10

\* C5 as claimed: after a failed construction an error of one of the two
\* kinds is raised and the store's groups and settings are those from before
\* the construction began.
C5_FailureLeavesStoreAsBefore ==
    (Finished /\ rejected # "none") =>
        /\ raised.kind \in {"RegisterSettingsGroupException",
                            "RegisterSettingsKeyException"}
        /\ DOMAIN groups = DOMAIN groups0
        /\ DOMAIN settings = DOMAIN settings0

\* C5 as amended: after a failed construction an error of one of the two
\* kinds is raised and the store's groups and settings are those from before
\* the construction began plus the group and settings of the steps accepted
\* before the rejected one (unchanged when the group step is rejected).
C5_FailureKeepsAcceptedSteps ==
    (Finished /\ rejected # "none") =>
        /\ raised.kind \in {"RegisterSettingsGroupException",
                            "RegisterSettingsKeyException"}
        /\ DOMAIN groups = (DOMAIN groups0) \cup GroupsBefore(rejected)
        /\ DOMAIN settings = (DOMAIN settings0) \cup KeysBefore(rejected)
        /\ rejected = "group" => groups = groups0 /\ settings = settings0

C5_Witness ==
    /\ pc = "raised"
    /\ rejected = "model"
    /\ "openai.api_key" \in (DOMAIN settings) \ (DOMAIN settings0)
    /\ "openai" \in (DOMAIN groups) \ (DOMAIN groups0)

\* C6: 'openai.max_tokens' is registered with a default of 2048, as the
\* docstring of register_max_tokens states.
C6_MaxTokensDefaultIs2048 ==
    "openai.max_tokens" \in DOMAIN settings =>
        Get(Registered("openai.max_tokens"), "default") = Num(2048)

C8_ModelDefaultInEnum ==
    "openai.model" \in DOMAIN settings =>
        LET p == Registered("openai.model")
        IN  /\ Get(p, "default") = Str("gpt-3.5-turbo")
            /\ Get(p, "default").s \in Range(Get(p, "enum").l)
            /\ Get(p, "enum").l =
                   << "gpt-4", "gpt-4-32k", "gpt-3.5-turbo",
                      "text-davinci-003", "text-davinci-002",
                      "text-curie-001", "text-babbage-001",
                      "text-babbage-002", "code-davinci-002",
                      "code-cushman-001" >>

C8_Witness ==
    /\ "openai.model" \in DOMAIN settings
    /\ {"default", "enum"} \subseteq Keys(Registered("openai.model"))

\* C9: once a construction has succeeded, every later construction against
\* the same store leaves the store as that first successful construction
\* left it: the same groups and the same settings with the same properties.
C9_RepeatedConstructionSameStore ==
    succeeded >= 1 =>
        /\ groups = firstGroups
        /\ settings = firstSettings
        /\ {"openai.api_key", "openai.model", "openai.max_tokens"}
               \subseteq DOMAIN settings

C9_Witness ==
    /\ succeeded >= 2
    /\ pc = "done"
    /\ rejected = "none"
    /\ settings = firstSettings

\* C10: when step k is rejected, construction makes no further host call
\* (the calls are those of steps 1..k, each once, k last), and the store is
\* what it was before the construction with the group/settings of the steps
\* before k registered; the entries of step k and later are as they were
\* before the construction.
C10_NoRetryNoRollback ==
    rejected # "none" =>
        /\ calls = SubSeq(ExpectedCalls, 1, StepNumber(rejected))
        /\ GroupsBefore(rejected) \subseteq DOMAIN groups
        /\ KeysBefore(rejected) \subseteq DOMAIN settings
        /\ \A g \in {"openai"} \ GroupsBefore(rejected) :
               g \in DOMAIN groups <=> g \in DOMAIN groups0
        /\ \A key \in KeysFrom(rejected) :
               /\ key \in DOMAIN settings <=> key \in DOMAIN settings0
               /\ key \in DOMAIN settings => settings[key] = settings0[key]
        /\ \A key \in (DOMAIN settings0) \ KeysBefore(rejected) :
               key \in DOMAIN settings /\ settings[key] = settings0[key]

C10_Witness ==
    /\ rejected = "max_tokens"
    /\ pc = "raised"
    /\ Len(calls) = 4
    /\ "openai.max_tokens" \notin DOMAIN settings
    /\ {"openai.api_key", "openai.model"} \subseteq DOMAIN settings

====
